---- MODULE Spec2Model ----
(***************************************************************************)
(* Model of aeon's DummyForecaster (forecasting/_dummy.py) and             *)
(* ScaledLogitSeriesTransformer (transformations/series/_scaled_logit.py). *)
(*                                                                         *)
(* Numbers are exact: a float is a rational n/d, the logarithm of a        *)
(* positive rational, e to a rational power, one of the IEEE specials      *)
(* nan / +inf / -inf, or an unevaluated expression over these.  log and    *)
(* exp are computed on that algebra (log 1 = 0, exp(log q) = q, log 0 =    *)
(* -inf, log of a negative = nan, r/0 = +-inf, ...), so two formulas give  *)
(* equal values only when the terms they compute agree.                    *)
(***************************************************************************)
EXTENDS Integers, Sequences, FiniteSets, TLC

VARIABLES
    \* ---- DummyForecaster ----
    last_value_,   \* self.last_value_ : NoneV or a number
    is_fitted,     \* the base class's fitted flag
    f_op,          \* last call made on the forecaster
    f_arg,         \* the y given to that call (<<>> if none was given)
    f_exog,        \* the exogenous covariates given to that call
    f_ret,         \* what that call returned (NoneV if it raised)
    f_raised,      \* "none" or the exception that call raised
    fit_y,         \* the y given to the most recent fit (<<>> before any fit)
    n_predict,     \* predict calls since the most recent fit
    \* ---- ScaledLogitSeriesTransformer ----
    lower_bound,   \* self.lower_bound : NoneV or a number
    upper_bound,   \* self.upper_bound : NoneV or a number
    heap,          \* array storage: the caller's name for an array -> its
                   \* elements, or Free
    t_op,          \* last call made on the transformer / last caller step
    t_in,          \* array passed as X to that call ("none" if none)
    t_out,         \* array that call returned ("none" if none)
    t_in_before,   \* contents of X when that call was entered
    t_warnings,    \* the warnings that call emitted, in order
    tr_branch,     \* formula branch the most recent transform took
    inv_branch,    \* formula branch the most recent inverse_transform took
    written,       \* the caller has since written into that call's result
    t_raised,      \* "none" or the exception that call raised
    origin,        \* array -> the X it is the transform of (<<>> if none)
    rt_origin      \* for inverse_transform: origin of its argument

f_vars == <<last_value_, is_fitted, f_op, f_arg, f_exog, f_ret, f_raised,
            fit_y, n_predict>>
t_vars == <<lower_bound, upper_bound, heap, t_op, t_in, t_out, t_in_before,
            t_warnings, tr_branch, inv_branch, written, t_raised, origin,
            rt_origin>>
vars == <<f_vars, t_vars>>

----------------------------------------------------------------------------
\* Bounds of the model

MaxLen == 2        \* longest array / sequence
MaxObs == 1        \* forecaster observations are 0..MaxObs
MaxCalls == 2      \* predict calls counted since a fit
MaxNum == 2        \* array elements are k/2 for k in -MaxNum..MaxNum
MaxBound == 1      \* configured bounds are None, -MaxBound, 0, MaxBound

----------------------------------------------------------------------------
\* Exact number algebra

Abs(i) == IF i < 0 THEN -i ELSE i

RECURSIVE Gcd(_, _)
Gcd(a, b) == IF b = 0 THEN a ELSE Gcd(b, a % b)

NoneV == [k |-> "none"]
NaN   == [k |-> "nan"]
PInf  == [k |-> "pinf"]
NInf  == [k |-> "ninf"]

\* the rational n/d in lowest terms, d # 0
Rat(n, d) ==
    LET g == Gcd(Abs(n), Abs(d))
        s == IF d < 0 THEN -1 ELSE 1
    IN  [k |-> "rat", n |-> (s * n) \div g, d |-> (s * d) \div g]

IntV(i) == Rat(i, 1)
Zero == IntV(0)
One  == IntV(1)

IsRat(v) == v.k = "rat"
IsZero(v) == IsRat(v) /\ v.n = 0

\* ln(n/d) for n/d > 0
LogQ(n, d) == IF n = d THEN Zero
              ELSE LET q == Rat(n, d) IN [k |-> "log", n |-> q.n, d |-> q.d]

\* e^(n/d)
ExpQ(n, d) == IF n = 0 THEN One
              ELSE LET q == Rat(n, d) IN [k |-> "exp", n |-> q.n, d |-> q.d]

\* -1, 0, 1 for a value whose sign is known, 2 otherwise
Sign(v) ==
    CASE v.k = "rat"  -> IF v.n > 0 THEN 1 ELSE IF v.n < 0 THEN -1 ELSE 0
      [] v.k = "log"  -> IF v.n > v.d THEN 1 ELSE -1
      [] v.k = "exp"  -> 1
      [] v.k = "pinf" -> 1
      [] v.k = "ninf" -> -1
      [] OTHER        -> 2

Neg(v) ==
    CASE v.k = "rat"  -> Rat(-v.n, v.d)
      [] v.k = "log"  -> LogQ(v.d, v.n)
      [] v.k = "pinf" -> NInf
      [] v.k = "ninf" -> PInf
      [] v.k = "nan"  -> NaN
      [] OTHER        -> [k |-> "neg", a |-> v]

\* a value of the algebra that is not an unevaluated expression
Known(v) == v.k \in {"rat", "log", "exp", "pinf", "ninf"}

Add(x, y) ==
    CASE x.k = "nan" \/ y.k = "nan" -> NaN
      [] IsRat(x) /\ IsRat(y) -> Rat(x.n * y.d + y.n * x.d, x.d * y.d)
      [] x.k = "pinf" /\ Known(y) -> IF y.k = "ninf" THEN NaN ELSE PInf
      [] x.k = "ninf" /\ Known(y) -> IF y.k = "pinf" THEN NaN ELSE NInf
      [] y.k = "pinf" /\ Known(x) -> PInf
      [] y.k = "ninf" /\ Known(x) -> NInf
      [] IsZero(x) -> y
      [] IsZero(y) -> x
      [] OTHER -> [k |-> "add", l |-> x, r |-> y]

Sub(x, y) ==
    CASE x.k = "nan" \/ y.k = "nan" -> NaN
      [] IsRat(x) /\ IsRat(y) -> Rat(x.n * y.d - y.n * x.d, x.d * y.d)
      [] x.k = "pinf" /\ Known(y) -> IF y.k = "pinf" THEN NaN ELSE PInf
      [] x.k = "ninf" /\ Known(y) -> IF y.k = "ninf" THEN NaN ELSE NInf
      [] y.k = "pinf" /\ Known(x) -> NInf
      [] y.k = "ninf" /\ Known(x) -> PInf
      [] IsZero(x) -> Neg(y)
      [] IsZero(y) -> x
      [] OTHER -> [k |-> "sub", l |-> x, r |-> y]

IsInf(v) == v.k = "pinf" \/ v.k = "ninf"
SignedInf(s) == IF s > 0 THEN PInf ELSE NInf

Mul(x, y) ==
    CASE x.k = "nan" \/ y.k = "nan" -> NaN
      [] IsRat(x) /\ IsRat(y) -> Rat(x.n * y.n, x.d * y.d)
      [] IsInf(x) /\ Sign(y) = 0 -> NaN
      [] IsInf(y) /\ Sign(x) = 0 -> NaN
      [] (IsInf(x) \/ IsInf(y)) /\ Sign(x) # 2 /\ Sign(y) # 2
            -> SignedInf(Sign(x) * Sign(y))
      [] IsZero(x) /\ Sign(y) # 2 -> Zero
      [] IsZero(y) /\ Sign(x) # 2 -> Zero
      [] x = One -> y
      [] y = One -> x
      [] OTHER -> [k |-> "mul", l |-> x, r |-> y]

\* IEEE division; a zero divisor is +0 (b - x with b = x)
Div(x, y) ==
    CASE x.k = "nan" \/ y.k = "nan" -> NaN
      [] IsInf(x) /\ IsInf(y) -> NaN
      [] IsRat(x) /\ IsRat(y) ->
            IF y.n # 0 THEN Rat(x.n * y.d, x.d * y.n)
            ELSE IF x.n = 0 THEN NaN ELSE SignedInf(x.n)
      [] IsInf(x) /\ Sign(y) # 2 ->
            SignedInf(Sign(x) * (IF Sign(y) = 0 THEN 1 ELSE Sign(y)))
      [] IsInf(y) /\ Sign(x) # 2 -> Zero
      [] y = One -> x
      [] OTHER -> [k |-> "div", l |-> x, r |-> y]

\* np.log
Log(v) ==
    CASE v.k = "rat"  -> IF v.n > 0 THEN LogQ(v.n, v.d)
                         ELSE IF v.n = 0 THEN NInf ELSE NaN
      [] v.k = "exp"  -> Rat(v.n, v.d)
      [] v.k = "pinf" -> PInf
      [] v.k = "ninf" -> NaN
      [] v.k = "nan"  -> NaN
      [] OTHER        -> [k |-> "logof", a |-> v]

\* np.exp
Exp(v) ==
    CASE v.k = "rat"  -> ExpQ(v.n, v.d)
      [] v.k = "log"  -> Rat(v.n, v.d)
      [] v.k = "pinf" -> PInf
      [] v.k = "ninf" -> Zero
      [] v.k = "nan"  -> NaN
      [] OTHER        -> [k |-> "expof", a |-> v]

\* values the comparisons below decide: rationals and the IEEE specials
Comparable(v) == v.k \in {"rat", "pinf", "ninf", "nan"}

\* x >= y and x <= y on floats, y a rational; false when x is nan
Geq(x, y) == \/ x.k = "pinf"
             \/ IsRat(x) /\ x.n * y.d >= y.n * x.d
Leq(x, y) == \/ x.k = "ninf"
             \/ IsRat(x) /\ x.n * y.d <= y.n * x.d
Lt(x, y) == IsRat(x) /\ x.n * y.d < y.n * x.d

Last(s) == s[Len(s)]

\* non-empty sequences over S of length at most MaxLen
SeqsOf(S) == UNION {[1..n -> S] : n \in 1..MaxLen}

----------------------------------------------------------------------------
\* DummyForecaster

Obs == {IntV(i) : i \in 0..MaxObs}
ObsSeqs == SeqsOf(Obs)
ExogVals == {NoneV, IntV(MaxObs + 1)}

\* _fit keeping the first observation instead of the last
_fit_first(y, exog) == y[1]

\* DummyForecaster._fit: the new self.last_value_
_fit(y, exog) == Last(y)

\* _predict answering from the y it is given when there is one
_predict_from_y(self_last_value, y, exog) ==
    IF y # <<>> THEN Last(y) ELSE self_last_value

\* DummyForecaster._predict
_predict(self_last_value, y, exog) == self_last_value

\* DummyForecaster._forecast
_forecast(y, X) == Last(y)

\* a guard that lets an unfitted estimator through
check_is_fitted_always(fitted) == TRUE

\* the base class's guard in predict: passes only on a fitted estimator
check_is_fitted(fitted) == fitted

InitF ==
    /\ last_value_ = NoneV
    /\ is_fitted = FALSE
    /\ f_op = "init"
    /\ f_arg = <<>>
    /\ f_exog = NoneV
    /\ f_ret = NoneV
    /\ f_raised = "none"
    /\ fit_y = <<>>
    /\ n_predict = 0

\* fit(y, exog) on a non-empty y: the base class marks the estimator
\* fitted and calls _fit
Fit(y, exog) ==
    /\ last_value_' = _fit(y, exog)
    /\ is_fitted' = TRUE
    /\ f_op' = "fit"
    /\ f_arg' = y
    /\ f_exog' = exog
    /\ f_ret' = NoneV
    /\ f_raised' = "none"
    /\ fit_y' = y
    /\ n_predict' = 0

\* predict(y, exog): the base class's guard, then _predict; y = <<>> stands
\* for y=None
Predict(y, exog) ==
    /\ n_predict < MaxCalls
    /\ f_op' = "predict"
    /\ f_arg' = y
    /\ f_exog' = exog
    /\ IF check_is_fitted(is_fitted)
       THEN /\ f_ret' = _predict(last_value_, y, exog)
            /\ f_raised' = "none"
       ELSE /\ f_ret' = NoneV
            /\ f_raised' = "NotFittedError"
    /\ n_predict' = n_predict + 1
    /\ UNCHANGED <<last_value_, is_fitted, fit_y>>

\* forecast done as fit followed by predict, keeping the fitted state
Forecast_persist(y, X) ==
    /\ f_op' = "forecast"
    /\ f_arg' = y
    /\ f_exog' = X
    /\ f_ret' = _forecast(y, X)
    /\ f_raised' = "none"
    /\ last_value_' = _fit(y, X)
    /\ is_fitted' = TRUE
    /\ UNCHANGED <<fit_y, n_predict>>

\* forecast(y, X) on a non-empty y
Forecast(y, X) ==
    /\ f_op' = "forecast"
    /\ f_arg' = y
    /\ f_exog' = X
    /\ f_ret' = _forecast(y, X)
    /\ f_raised' = "none"
    /\ UNCHANGED <<last_value_, is_fitted, fit_y, n_predict>>

FitStep ==
    /\ \E y \in ObsSeqs, exog \in ExogVals : Fit(y, exog)
    /\ UNCHANGED t_vars
PredictStep ==
    /\ \E y \in ObsSeqs \cup {<<>>}, exog \in ExogVals : Predict(y, exog)
    /\ UNCHANGED t_vars
ForecastStep ==
    /\ \E y \in ObsSeqs, X \in ExogVals : Forecast(y, X)
    /\ UNCHANGED t_vars

NextF == FitStep \/ PredictStep \/ ForecastStep

----------------------------------------------------------------------------
\* ScaledLogitSeriesTransformer

Elems == {Rat(i, 2) : i \in -MaxNum..MaxNum}
Arrays == SeqsOf(Elems)
BoundVals == {NoneV, IntV(-MaxBound), Zero, IntV(MaxBound)}
\* the arrays of the caller: an input, the result of the latest transform,
\* the result of the latest inverse_transform
Refs == {"X", "Xt", "Xi"}
Free == <<>>
\* the value the caller writes into a result: not an element of any input
WriteVal == IntV(MaxNum + 1)

\* a presence test in place of truthiness
Truthy_notnone(b) == b # NoneV

\* Python truthiness of a bound: None and 0 are falsy
Truthy(b) == b # NoneV /\ ~IsZero(b)

\* elementwise formulas of _transform
ScaledLogit(x, a, b) == Log(Div(Sub(x, a), Sub(b, x)))
NegLogUpper(x, b) == Neg(Log(Sub(b, x)))
LogLower(x, a) == Log(Sub(x, a))

\* elementwise formulas of _inverse_transform
InvScaledLogit(x, a, b) == Div(Add(Mul(b, Exp(x)), a), Add(Exp(x), One))
InvNegLogUpper(x, b) == Sub(b, Exp(Neg(x)))
InvLogLower(x, a) == Add(Exp(x), a)

MapArr(F(_), X) == [i \in 1..Len(X) |-> F(X[i])]

\* np.any(X >= upper_bound), np.any(X <= lower_bound)
AnyGeq(X, b) == \E i \in 1..Len(X) : Geq(X[i], b)
AnyLeq(X, b) == \E i \in 1..Len(X) : Leq(X[i], b)

\* the warnings with strict comparisons (X > upper_bound, X < lower_bound)
TransformWarnings_strict(X, lb, ub) ==
    (IF ub # NoneV /\ (\E i \in 1..Len(X) : Geq(X[i], ub) /\ X[i] # ub)
        THEN <<"upper">> ELSE <<>>)
    \o (IF lb # NoneV /\ (\E i \in 1..Len(X) : Leq(X[i], lb) /\ X[i] # lb)
        THEN <<"lower">> ELSE <<>>)

\* the warnings _transform emits, in order
TransformWarnings(X, lb, ub) ==
    (IF ub # NoneV /\ AnyGeq(X, ub) THEN <<"upper">> ELSE <<>>)
    \o (IF lb # NoneV /\ AnyLeq(X, lb) THEN <<"lower">> ELSE <<>>)

\* _transform testing the two-bound arm with "is not None"
TransformBranch_notnone(lb, ub) ==
    IF ub # NoneV /\ lb # NoneV THEN "both"
    ELSE IF ub # NoneV THEN "upper"
    ELSE IF lb # NoneV THEN "lower"
    ELSE "identity"

\* which arm of the if/elif chain of _transform is taken
TransformBranch(lb, ub) ==
    IF Truthy(ub) /\ Truthy(lb) THEN "both"
    ELSE IF ub # NoneV THEN "upper"
    ELSE IF lb # NoneV THEN "lower"
    ELSE "identity"

\* _inverse_transform testing the two-bound arm with "is not None"
InverseBranch_notnone(lb, ub) ==
    IF ub # NoneV /\ lb # NoneV THEN "both"
    ELSE IF ub # NoneV THEN "upper"
    ELSE IF lb # NoneV THEN "lower"
    ELSE "identity"

\* which arm of the if/elif chain of _inverse_transform is taken
InverseBranch(lb, ub) ==
    IF Truthy(ub) /\ Truthy(lb) THEN "both"
    ELSE IF ub # NoneV THEN "upper"
    ELSE IF lb # NoneV THEN "lower"
    ELSE "identity"

\* _transform returning X itself, not a deepcopy, in the identity arm
_transform_nocopy(r, X, lb, ub, fresh) ==
    LET br == TransformBranch(lb, ub)
        F1(x) == ScaledLogit(x, lb, ub)
        F2(x) == NegLogUpper(x, ub)
        F3(x) == LogLower(x, lb)
    IN  [warnings |-> TransformWarnings(X, lb, ub),
         raised |-> "none",
         branch |-> br,
         ref |-> IF br = "identity" THEN r ELSE fresh,
         val |-> CASE br = "both"  -> MapArr(F1, X)
                   [] br = "upper" -> MapArr(F2, X)
                   [] br = "lower" -> MapArr(F3, X)
                   [] OTHER        -> X]

\* _transform on the array r with elements X; every arm builds its result
\* (numpy arithmetic, or deepcopy) in new storage, the array named fresh
_transform(r, X, lb, ub, fresh) ==
    LET br == TransformBranch(lb, ub)
        F1(x) == ScaledLogit(x, lb, ub)
        F2(x) == NegLogUpper(x, ub)
        F3(x) == LogLower(x, lb)
    IN  [warnings |-> TransformWarnings(X, lb, ub),
         raised |-> "none",
         branch |-> br,
         ref |-> fresh,
         val |-> CASE br = "both"  -> MapArr(F1, X)
                   [] br = "upper" -> MapArr(F2, X)
                   [] br = "lower" -> MapArr(F3, X)
                   [] OTHER        -> X]

\* _inverse_transform on the array r with elements X
_inverse_transform(r, X, lb, ub, fresh) ==
    LET br == InverseBranch(lb, ub)
        F1(x) == InvScaledLogit(x, lb, ub)
        F2(x) == InvNegLogUpper(x, ub)
        F3(x) == InvLogLower(x, lb)
    IN  [branch |-> br,
         ref |-> fresh,
         val |-> CASE br = "both"  -> MapArr(F1, X)
                   [] br = "upper" -> MapArr(F2, X)
                   [] br = "lower" -> MapArr(F3, X)
                   [] OTHER        -> X]

\* state after ScaledLogitSeriesTransformer(lower_bound=lb, upper_bound=ub)
Construct(lb, ub) ==
    /\ lower_bound = lb
    /\ upper_bound = ub
    /\ heap = [r \in Refs |-> Free]
    /\ t_op = "init"
    /\ t_in = "none"
    /\ t_out = "none"
    /\ t_in_before = <<>>
    /\ t_warnings = <<>>
    /\ tr_branch = "none"
    /\ inv_branch = "none"
    /\ written = FALSE
    /\ t_raised = "none"
    /\ origin = [r \in Refs |-> <<>>]
    /\ rt_origin = <<>>

InitT == \E lb \in BoundVals, ub \in BoundVals : Construct(lb, ub)

\* the caller builds its input array X
NewArray(X) ==
    /\ heap["X"] = Free
    /\ heap' = [heap EXCEPT !["X"] = X]
    /\ origin' = origin
    /\ t_op' = "new"
    /\ t_in' = "none"
    /\ t_out' = "X"
    /\ t_in_before' = <<>>
    /\ t_warnings' = <<>>
    /\ written' = FALSE
    /\ t_raised' = "none"
    /\ rt_origin' = <<>>
    /\ UNCHANGED <<lower_bound, upper_bound, tr_branch, inv_branch>>

\* Xt = transform(r) for r the input or an inverse_transform result
Transform(r) ==
    /\ r \in {"X", "Xi"}
    /\ ~written
    /\ heap[r] # Free
    /\ \A i \in 1..Len(heap[r]) : Comparable(heap[r][i])
    /\ LET res == _transform(r, heap[r], lower_bound, upper_bound, "Xt")
       IN  /\ heap' = [heap EXCEPT ![res.ref] = res.val]
           /\ origin' = [origin EXCEPT ![res.ref] = heap[r]]
           /\ t_out' = res.ref
           /\ t_warnings' = res.warnings
           /\ t_raised' = res.raised
           /\ tr_branch' = res.branch
    /\ t_op' = "transform"
    /\ t_in' = r
    /\ t_in_before' = heap[r]
    /\ written' = FALSE
    /\ rt_origin' = <<>>
    /\ UNCHANGED <<lower_bound, upper_bound, inv_branch>>

\* Xi = inverse_transform(r) for r the input or a transform result
InverseTransform(r) ==
    /\ r \in {"X", "Xt"}
    /\ ~written
    /\ heap[r] # Free
    /\ LET res == _inverse_transform(r, heap[r], lower_bound, upper_bound,
                                     "Xi")
       IN  /\ heap' = [heap EXCEPT ![res.ref] = res.val]
           /\ origin' = [origin EXCEPT ![res.ref] = <<>>]
           /\ t_out' = res.ref
           /\ inv_branch' = res.branch
    /\ t_op' = "inverse_transform"
    /\ t_in' = r
    /\ t_in_before' = heap[r]
    /\ t_warnings' = <<>>
    /\ t_raised' = "none"
    /\ written' = FALSE
    /\ rt_origin' = origin[r]
    /\ UNCHANGED <<lower_bound, upper_bound, tr_branch>>

\* the caller's last step: it writes into element i of the array the last
\* call returned
WriteResult(i) ==
    /\ t_op \in {"transform", "inverse_transform"}
    /\ ~written
    /\ i \in 1..Len(heap[t_out])
    /\ heap' = [heap EXCEPT ![t_out][i] = WriteVal]
    /\ origin' = [origin EXCEPT ![t_out] = <<>>]
    /\ written' = TRUE
    /\ UNCHANGED <<lower_bound, upper_bound, t_op, t_in, t_out, t_in_before,
                   t_warnings, tr_branch, inv_branch, t_raised, rt_origin>>

NewArrayStep ==
    /\ \E X \in Arrays : NewArray(X)
    /\ UNCHANGED f_vars
TransformStep ==
    /\ \E r \in Refs : Transform(r)
    /\ UNCHANGED f_vars
InverseTransformStep ==
    /\ \E r \in Refs : InverseTransform(r)
    /\ UNCHANGED f_vars
WriteResultStep ==
    /\ \E i \in 1..MaxLen : WriteResult(i)
    /\ UNCHANGED f_vars

NextT == NewArrayStep \/ TransformStep \/ InverseTransformStep
            \/ WriteResultStep

----------------------------------------------------------------------------
\* Specifications

\* a forecaster in use, next to a default-constructed transformer
InitForecaster ==
    /\ InitF
    /\ Construct(NoneV, NoneV)
SpecForecaster == InitForecaster /\ [][NextF]_vars

\* a transformer in use, next to a freshly constructed forecaster
InitTransformer ==
    /\ InitT
    /\ InitF
SpecTransformer == InitTransformer /\ [][NextT]_vars

----------------------------------------------------------------------------
\* Properties of DummyForecaster (checked under SpecForecaster)

\* C1: after fit(s), predict returns s[-1] and does not fail, whatever y
\* and exogenous covariates it is given and however many predict calls
\* were made since that fit.
C1_FitThenPredict ==
    (f_op = "predict" /\ fit_y # <<>>) =>
        (f_raised = "none" /\ f_ret = Last(fit_y))

C1_Witness ==
    /\ f_op = "predict" /\ fit_y # <<>> /\ n_predict >= 2
    /\ f_arg # <<>> /\ Last(f_arg) # Last(fit_y)
    /\ f_exog # NoneV
    /\ f_ret = Last(fit_y)

\* C2: predict on a forecaster that was never fitted fails with the unfit
\* condition and returns nothing.
C2_PredictBeforeFit ==
    (f_op = "predict" /\ fit_y = <<>>) =>
        (f_raised = "NotFittedError" /\ f_ret = NoneV)

C2_Witness ==
    /\ f_op = "predict" /\ fit_y = <<>> /\ f_raised = "NotFittedError"
    /\ n_predict >= 2

\* C3: last_value_ is absent until the first fit and afterwards is the last
\* element of the sequence given to the most recent fit; predict and
\* forecast leave it unchanged.
C3_LastValue ==
    last_value_ = (IF fit_y = <<>> THEN NoneV ELSE Last(fit_y))

C3_Witness ==
    /\ f_op = "forecast" /\ fit_y # <<>>
    /\ Len(fit_y) = MaxLen /\ fit_y[1] # Last(fit_y)
    /\ Last(f_arg) # Last(fit_y)
    /\ last_value_ = Last(fit_y)
    /\ n_predict >= 1

\* C4: forecast(s) returns s[-1] without failing, fitted or not, and leaves
\* last_value_ as it was.
C4_ForecastStateless ==
    [][f_op' = "forecast" =>
          /\ f_raised' = "none"
          /\ f_ret' = Last(f_arg')
          /\ last_value_' = last_value_]_vars

C4_Witness ==
    /\ f_op = "forecast" /\ fit_y # <<>>
    /\ f_ret = Last(f_arg) /\ f_ret # last_value_

----------------------------------------------------------------------------
\* Properties of ScaledLogitSeriesTransformer (checked under SpecTransformer)

\* the branch the class docstring documents: selected by "is not None"
DocBranch(lb, ub) ==
    IF ub # NoneV /\ lb # NoneV THEN "both"
    ELSE IF ub # NoneV THEN "upper"
    ELSE IF lb # NoneV THEN "lower"
    ELSE "identity"

\* the forward formula of branch br applied to every element of X
ForwardBy(br, X, lb, ub) ==
    [i \in 1..Len(X) |->
        CASE br = "both"  -> Log(Div(Sub(X[i], lb), Sub(ub, X[i])))
          [] br = "upper" -> Neg(Log(Sub(ub, X[i])))
          [] br = "lower" -> Log(Sub(X[i], lb))
          [] OTHER        -> X[i]]

\* the inverse formula of branch br applied to every element of X
InverseBy(br, X, lb, ub) ==
    [i \in 1..Len(X) |->
        CASE br = "both"  -> Div(Add(Mul(ub, Exp(X[i])), lb),
                                 Add(Exp(X[i]), One))
          [] br = "upper" -> Sub(ub, Exp(Neg(X[i])))
          [] br = "lower" -> Add(Exp(X[i]), lb)
          [] OTHER        -> X[i]]

\* every element of X lies strictly inside the configured bounds
StrictlyInside(X, lb, ub) ==
    \A i \in 1..Len(X) :
        /\ IsRat(X[i])
        /\ lb # NoneV => Lt(lb, X[i])
        /\ ub # NoneV => Lt(X[i], ub)

BothConfigured == lower_bound # NoneV /\ upper_bound # NoneV
SomeZero == IsZero(lower_bound) \/ IsZero(upper_bound)

\* C5: transform applies the formula selected by which bounds are not None,
\* for every bound value, 0 included.
C5_FormulaByNotNone ==
    (t_op = "transform" /\ ~written) =>
        heap[t_out] = ForwardBy(DocBranch(lower_bound, upper_bound),
                                t_in_before, lower_bound, upper_bound)

\* C6: inverse_transform(transform(X)) = X for every X strictly inside the
\* configured bounds, for every configuration of the bounds.
C6_RoundTrip ==
    (/\ t_op = "inverse_transform" /\ ~written
     /\ rt_origin # <<>>
     /\ StrictlyInside(rt_origin, lower_bound, upper_bound))
        => heap[t_out] = rt_origin

C6_Witness ==
    /\ t_op = "inverse_transform" /\ ~written
    /\ rt_origin # <<>>
    /\ StrictlyInside(rt_origin, lower_bound, upper_bound)
    /\ BothConfigured /\ SomeZero
    /\ Len(rt_origin) = MaxLen
    /\ \A i \in 1..Len(t_in_before) : t_in_before[i].k = "log"
    /\ heap[t_out] = rt_origin

\* C7: transform never raises on a bound violation; it emits the upper
\* warning once exactly when upper_bound is configured and some element is
\* >= it, the lower warning once exactly when lower_bound is configured and
\* some element is <= it, and returns what the formula gives regardless.
C7_WarnOnly ==
    t_op = "transform" =>
        LET up == upper_bound # NoneV /\
                  \E i \in 1..Len(t_in_before) :
                      Geq(t_in_before[i], upper_bound)
            lo == lower_bound # NoneV /\
                  \E i \in 1..Len(t_in_before) :
                      Leq(t_in_before[i], lower_bound)
        IN  /\ t_raised = "none"
            /\ t_warnings = (IF up THEN <<"upper">> ELSE <<>>)
                            \o (IF lo THEN <<"lower">> ELSE <<>>)
            /\ ~written =>
                 heap[t_out] = ForwardBy(tr_branch, t_in_before,
                                         lower_bound, upper_bound)

C7_Witness ==
    /\ t_op = "transform" /\ ~written
    /\ t_warnings = <<"upper", "lower">>
    /\ t_raised = "none"
    /\ tr_branch = "both"
    /\ \E i \in 1..Len(t_in_before) : t_in_before[i] = upper_bound
    /\ \E i \in 1..Len(heap[t_out]) : heap[t_out][i] \in {NaN, PInf, NInf}

\* C8: with both bounds unset, transform and inverse_transform return an
\* array equal to X in storage of its own: X is as it was on entry, also
\* after the caller has written into the result.
C8_IdentityCopies ==
    (/\ t_op \in {"transform", "inverse_transform"}
     /\ lower_bound = NoneV /\ upper_bound = NoneV)
        => /\ t_out # t_in
           /\ heap[t_in] = t_in_before
           /\ ~written => heap[t_out] = t_in_before

C8_Witness ==
    /\ t_op = "transform" /\ lower_bound = NoneV /\ upper_bound = NoneV
    /\ written
    /\ heap[t_out] # t_in_before
    /\ heap[t_in] = t_in_before

C10_SameBranch ==
    [][/\ (tr_branch' # "none" /\ inv_branch' # "none")
            => tr_branch' = inv_branch'
       /\ lower_bound' = lower_bound
       /\ upper_bound' = upper_bound]_vars

C10_Witness ==
    /\ tr_branch # "none" /\ inv_branch # "none"
    /\ BothConfigured /\ SomeZero
    /\ tr_branch = inv_branch

====
